---- MODULE Spec2Model ----
(***************************************************************************)
(* Model of notebooks/2_kernel_optimization/1-kernel-optimizations.ipynb:  *)
(* the host statements of its code cells, executed top to bottom, and the  *)
(* accelerator beneath them (device mirrors of the buffers, the vadd       *)
(* compute unit).  One action per host statement; the device finishes a    *)
(* started kernel in an action of its own, so a non-blocking start()       *)
(* really overlaps with the host statements that follow it.                *)
(*                                                                         *)
(* Data.  A buffer is a function from slice index to the value held by     *)
(* that slice (one representative element per slice).  Examples 1 and 2    *)
(* move whole buffers, modelled as buffers of one slice; Example 3 slices  *)
(* along the leading dimension.  Indet stands for contents that do not     *)
(* derive from the host's current data: freshly allocated memory, a device *)
(* mirror whose host copy was rewritten, the output of a faulted kernel.   *)
(* Indet differs from every value, and a kernel reading Indet writes Indet.*)
(***************************************************************************)
EXTENDS Integers, Sequences, FiniteSets, TLC

\* ------------------------------------------------------------------ bounds
\* Largest leading dimension explored for the Example 3 buffers (10 in the
\* notebook: lines 381-383, range(10), i < 9, out_iter[9]).
MaxSlices == 3
\* Largest number of times %%timeit executes a cell body.
MaxRuns == 2
\* Largest number of device-side kernel faults injected in one notebook run
\* (specification FaultSpec).
MaxFaults == 1

\* ------------------------------------------------------- program constants
\* np.random.randint(1000, ...): input elements lie in [0, RandLimit).
RandLimit == 1000
\* The overlapped loop works one slice ahead of and one slice behind the
\* running invocation (the 1 of in1_iter[i+1], in2_iter[i+1], out_iter[i-1]).
Depth == 1

Values == {0, RandLimit - 1}
Indet == -1
NoSlice == -1
WholeBuf == -1

Bufs == {"in1", "in2", "out"}

VARIABLES
    pc,          \* the next host statement
    ex,          \* the example being executed: 1, 2, 3
    n,           \* number of slices of the live buffers
    host,        \* host[b][s]: host copy of slice s of buffer b
    dev,         \* dev[b][s]: device mirror of slice s of buffer b
    bank,        \* bank[b]: memory bank buffer b was allocated in
    live,        \* buffers allocated and not yet deleted
    overlay,     \* TRUE while the overlay context is loaded
    i,           \* loop variable of the Example 3 loops
    handle,      \* slice of the invocation the host's handle refers to
    outstanding, \* slices whose invocation was started and not yet waited on
    running,     \* slices whose invocation the device has not finished
    faulty,      \* slices whose last invocation ended in a device fault
    faultBudget, \* device faults the accelerator may still report
    cell,        \* the %%timeit cell being executed: "a", "b", "s", "o"
    runs,        \* completed %%timeit executions of the current cell
    equal,       \* np.array_equal of the live buffers, "none" before it
    err,         \* the exception that ended the notebook, <<>> if none
    log,         \* host events since the inputs were last written, oldest first
    runStart     \* position in log of the last %%timeit "begin" event, 0 if none

vars == <<pc, ex, n, host, dev, bank, live, overlay, i, handle, outstanding,
          running, faulty, faultBudget, cell, runs, equal, err, log, runStart>>

Slices == 0 .. (n - 1)

\* ---------------------------------------------------------- pure functions
\* The vadd kernels: elementwise addition of the two device inputs.  The
\* elements are unsigned 32-bit ('u4') and the operands lie below RandLimit,
\* so the sum stays below 2 * RandLimit and never wraps.
Vadd(a, b) ==
    IF a = Indet \/ b = Indet THEN Indet ELSE a + b

\* numpy's in1 + in2 on 'u4' arrays (same width, no wrap for these operands).
NpAdd(a, b) ==
    IF a = Indet \/ b = Indet THEN Indet ELSE a + b

\* np.array_equal(out, in1 + in2)
ArrayEqual ==
    \A s \in Slices : host["out"][s] = NpAdd(host["in1"][s], host["in2"][s])

\* Bank each kernel binds to each buffer argument (.args outputs).
KernelBank(e, b) ==
    IF e = 1 THEN "bank1"
    ELSE CASE b = "in1" -> "bank0"
           [] b = "in2" -> "bank1"
           [] b = "out" -> "bank2"

\* target=ol.bank1 of Example 1 kept for the buffers of the later examples.
AllocBankSame(e, b) == "bank1"

\* target= of the pynq.allocate calls.
AllocBank(e, b) ==
    IF e = 1 THEN "bank1"
    ELSE CASE b = "in1" -> "bank0"
           [] b = "in2" -> "bank1"
           [] b = "out" -> "bank2"

Ev(op, b, s) == <<op, b, s>>

\* ------------------------------------------------------------------- Init
\* After the first code cell: the overlay is loaded, nothing is allocated.
\* The accelerator reports no kernel fault.
Init ==
    /\ pc = "alloc"
    /\ ex = 1
    /\ n = 0
    /\ host = [b \in Bufs |-> <<>>]
    /\ dev = [b \in Bufs |-> <<>>]
    /\ bank = [b \in Bufs |-> "none"]
    /\ live = {}
    /\ overlay = TRUE
    /\ i = 0
    /\ handle = NoSlice
    /\ outstanding = {}
    /\ running = {}
    /\ faulty = {}
    /\ faultBudget = 0
    /\ cell = "a"
    /\ runs = 0
    /\ equal = "none"
    /\ err = <<>>
    /\ log = <<>>
    /\ runStart = 0

\* ------------------------------------------------------ runtime primitives
\* An exception leaves the cell: nothing after the raising statement runs.
Raise(phase, s) ==
    /\ pc' = "raised"
    /\ err' = <<phase, s>>

\* buffer[s].sync_to_device(): blocking; copies the host slice to the device
\* mirror, or raises on a link failure.
SyncToDevice(b, s, next) ==
    /\ \/ /\ dev' = [dev EXCEPT ![b][s] = host[b][s]]
          /\ log' = Append(log, Ev("to_device", b, s))
          /\ pc' = next
          /\ err' = err
       \/ /\ Raise("transfer-in", s)
          /\ UNCHANGED <<dev, log>>
    /\ UNCHANGED host

\* buffer[s].sync_from_device(): blocking; copies the device mirror to the
\* host slice, or raises on a link failure.
SyncFromDevice(b, s, next) ==
    /\ \/ /\ host' = [host EXCEPT ![b][s] = dev[b][s]]
          /\ log' = Append(log, Ev("from_device", b, s))
          /\ pc' = next
          /\ err' = err
       \/ /\ Raise("transfer-out", s)
          /\ UNCHANGED <<host, log>>
    /\ UNCHANGED dev

\* The compute unit finishes (device side) the invocation on slice s: it
\* writes the output slice from the device input slices, or faults and leaves
\* the output slice indeterminate.
Finished(s, fault) ==
    [dev EXCEPT !["out"][s] =
        IF fault THEN Indet ELSE Vadd(dev["in1"][s], dev["in2"][s])]

\* kernel.start(in1[s], in2[s], out[s], size): non-blocking; returns a handle.
\* A buffer argument in the wrong bank is refused (DispatchError).
Start(s, next) ==
    IF \E b \in Bufs : bank[b] # KernelBank(ex, b)
    THEN /\ Raise("invoke", s)
         /\ UNCHANGED <<handle, outstanding, running, log>>
    ELSE /\ handle' = s
         /\ outstanding' = outstanding \cup {s}
         /\ running' = running \cup {s}
         /\ log' = Append(log, Ev("start", "kernel", s))
         /\ pc' = next
         /\ err' = err

\* handle.wait() left out: the host goes on without waiting.
WaitOmitted(next) ==
    /\ pc' = next
    /\ UNCHANGED <<handle, outstanding, log>>

\* handle.wait(): blocks until the device has finished the invocation the
\* handle refers to.  The Result it returns is not looked at.
Wait(next) ==
    /\ handle # NoSlice
    /\ handle \notin running
    /\ outstanding' = outstanding \ {handle}
    /\ handle' = NoSlice
    /\ log' = Append(log, Ev("wait", "kernel", handle))
    /\ pc' = next

\* kernel.call(in1[s], in2[s], out[s], size): start() followed by wait().
Call(s, next) ==
    IF \E b \in Bufs : bank[b] # KernelBank(ex, b)
    THEN /\ Raise("invoke", s)
         /\ UNCHANGED <<dev, faulty, faultBudget, log>>
    ELSE \E fault \in BOOLEAN :
         /\ fault => faultBudget > 0
         /\ dev' = Finished(s, fault)
         /\ faulty' = IF fault THEN faulty \cup {s} ELSE faulty \ {s}
         /\ faultBudget' = IF fault THEN faultBudget - 1 ELSE faultBudget
         /\ log' = log \o <<Ev("start", "kernel", s), Ev("wait", "kernel", s)>>
         /\ pc' = next
         /\ err' = err

\* ------------------------------------------------------------ device step
KernelFinish ==
    /\ \E s \in running : \E fault \in BOOLEAN :
        /\ fault => faultBudget > 0
        /\ running' = running \ {s}
        /\ dev' = Finished(s, fault)
        /\ faulty' = IF fault THEN faulty \cup {s} ELSE faulty \ {s}
        /\ faultBudget' = IF fault THEN faultBudget - 1 ELSE faultBudget
    /\ UNCHANGED <<pc, ex, n, host, bank, live, overlay, i, handle,
                   outstanding, cell, runs, equal, err, log, runStart>>

\* ------------------------------------------------------- host statements
\* What a transfer statement leaves alone.
TransferFrame ==
    UNCHANGED <<ex, n, bank, live, overlay, handle, outstanding, running,
                faulty, faultBudget, cell, runs, equal, runStart>>

\* What an invocation statement executed by call() leaves alone.
CallFrame ==
    UNCHANGED <<ex, n, host, bank, live, overlay, handle, outstanding,
                running, cell, runs, equal, runStart>>

\* in1 = pynq.allocate(..., target=...), in2 = ..., out = ..., followed by
\* in1[:] = np.random.randint(...), in2[:] = ... (code cells 2, 7 and 11).
Allocate ==
    /\ pc = "alloc"
    /\ overlay
    /\ \E k \in (IF ex = 3 THEN 1 .. MaxSlices ELSE {1}) :
       \E a \in [0 .. (k - 1) -> Values], b \in [0 .. (k - 1) -> Values] :
        /\ n' = k
        /\ host' = [in1 |-> a, in2 |-> b, out |-> [s \in 0 .. (k - 1) |-> Indet]]
        /\ dev' = [x \in Bufs |-> [s \in 0 .. (k - 1) |-> Indet]]
    /\ bank' = [x \in Bufs |-> AllocBank(ex, x)]
    /\ live' = Bufs
    /\ log' = <<Ev("host_write", "in1", WholeBuf), Ev("host_write", "in2", WholeBuf)>>
    /\ runStart' = 0
    /\ cell' = IF ex = 3 THEN "s" ELSE "a"
    /\ runs' = 0
    /\ equal' = "none"
    /\ faulty' = {}
    /\ pc' = "timeit"
    /\ UNCHANGED <<ex, overlay, i, handle, outstanding, running, faultBudget, err>>

\* First statement of each %%timeit cell.
FirstOf(c) ==
    CASE c = "a" -> "a_in1"
      [] c = "b" -> "b_call"
      [] c = "s" -> "s_in1"
      [] c = "o" -> "o_prime1"

\* %%timeit: one more execution of the cell body begins.
TimeitBegin ==
    /\ pc = "timeit"
    /\ i' = 0
    /\ log' = Append(log, Ev("begin", cell, runs))
    /\ runStart' = Len(log) + 1
    /\ pc' = FirstOf(cell)
    /\ UNCHANGED <<ex, n, host, dev, bank, live, overlay, handle, outstanding,
                   running, faulty, faultBudget, cell, runs, equal, err>>

\* %%timeit: the cell body returned; it is executed again.
TimeitRepeat ==
    /\ pc = "timeit_end"
    /\ runs + 1 < MaxRuns
    /\ runs' = runs + 1
    /\ log' = Append(log, Ev("end", cell, runs))
    /\ pc' = "timeit"
    /\ UNCHANGED <<ex, n, host, dev, bank, live, overlay, i, handle,
                   outstanding, running, faulty, faultBudget, cell, equal, err, runStart>>

\* %%timeit: the cell body returned for the last time; the next cell follows.
TimeitDone ==
    /\ pc = "timeit_end"
    /\ runs' = 0
    /\ log' = Append(log, Ev("end", cell, runs))
    /\ cell' = IF cell = "a" THEN "b" ELSE cell
    /\ pc' = IF cell = "a" THEN "timeit" ELSE "compare"
    /\ UNCHANGED <<ex, n, host, dev, bank, live, overlay, i, handle,
                   outstanding, running, faulty, faultBudget, equal, err, runStart>>

\* ---- Examples 1 and 2, code cells 3 and 8 (sync, call, sync)
A_SyncIn1 ==
    /\ pc = "a_in1"
    /\ SyncToDevice("in1", 0, "a_in2")
    /\ TransferFrame /\ UNCHANGED i

A_SyncIn2 ==
    /\ pc = "a_in2"
    /\ SyncToDevice("in2", 0, "a_call")
    /\ TransferFrame /\ UNCHANGED i

A_Call ==
    /\ pc = "a_call"
    /\ Call(0, "a_out")
    /\ CallFrame /\ UNCHANGED i

\* out.sync_from_device() left out of the cell.
A_SyncOutOmitted ==
    /\ pc = "a_out"
    /\ pc' = "timeit_end"
    /\ UNCHANGED <<ex, n, host, dev, bank, live, overlay, i, handle,
                   outstanding, running, faulty, faultBudget, cell, runs, equal,
                   err, log, runStart>>

A_SyncOut ==
    /\ pc = "a_out"
    /\ SyncFromDevice("out", 0, "timeit_end")
    /\ TransferFrame /\ UNCHANGED i

\* ---- Examples 1 and 2, code cells 4 and 9 (call only)
B_Call ==
    /\ pc = "b_call"
    /\ Call(0, "timeit_end")
    /\ CallFrame /\ UNCHANGED i

\* np.array_equal(out, in1 + in2) (code cells 5, 10, 13 and 16)
Compare ==
    /\ pc = "compare"
    /\ equal' = IF ArrayEqual THEN "True" ELSE "False"
    /\ log' = Append(log, Ev("host_read", "out", WholeBuf))
    /\ pc' = IF ex = 3 /\ cell = "s" THEN "reinit" ELSE "del"
    /\ UNCHANGED <<ex, n, host, dev, bank, live, overlay, i, handle,
                   outstanding, running, faulty, faultBudget, cell, runs, err, runStart>>

\* del in1, del in2, del out (Examples 1 and 2); the next example follows.
DeleteBuffers ==
    /\ pc = "del"
    /\ ex < 3
    /\ live' = {}
    /\ n' = 0
    /\ host' = [b \in Bufs |-> <<>>]
    /\ dev' = [b \in Bufs |-> <<>>]
    /\ bank' = [b \in Bufs |-> "none"]
    /\ ex' = ex + 1
    /\ equal' = "none"
    /\ pc' = "alloc"
    /\ UNCHANGED <<overlay, i, handle, outstanding, running, faulty, faultBudget,
                   cell, runs, err, log, runStart>>

\* del in1_iter, del in2_iter, del out_iter left out of the last code cell.
DeleteIterOmitted ==
    /\ pc = "del"
    /\ ex = 3
    /\ pc' = "free"
    /\ UNCHANGED <<ex, n, host, dev, bank, live, overlay, i, handle,
                   outstanding, running, faulty, faultBudget, cell, runs, equal,
                   err, log, runStart>>

\* del in1_iter, del in2_iter, del out_iter (last code cell)
DeleteIter ==
    /\ pc = "del"
    /\ ex = 3
    /\ live' = {}
    /\ n' = 0
    /\ host' = [b \in Bufs |-> <<>>]
    /\ dev' = [b \in Bufs |-> <<>>]
    /\ bank' = [b \in Bufs |-> "none"]
    /\ pc' = "free"
    /\ UNCHANGED <<ex, overlay, i, handle, outstanding, running, faulty,
                   faultBudget, cell, runs, equal, err, log, runStart>>

\* ol.free() (last statement of the last code cell)
CleanUp ==
    /\ pc = "free"
    /\ overlay' = FALSE
    /\ pc' = "end"
    /\ UNCHANGED <<ex, n, host, dev, bank, live, i, handle, outstanding,
                   running, faulty, faultBudget, cell, runs, equal, err, log,
                   runStart>>

\* ---- Example 3: loop structure of code cells 12 and 15
\* range(10) one short.
LoopContinuesShort(k) == k + 2 < n

\* for i in range(10): another iteration follows iteration k.
LoopContinues(k) == k + 1 < n

\* The literal 9: index of the last slice.
LastIndex == n - 1

\* if i < 8
HasNextOff(k) == k < LastIndex - 1

\* if i < 9: the input slices of the next iteration exist.
HasNext(k) == k < LastIndex

\* if i > 1
HasPrevOff(k) == k > 1

\* if i > 0: the output slice of the previous iteration exists.
HasPrev(k) == k > 0

\* in1_iter[i], in2_iter[i] in place of [i+1]
NextInputSame(k) == k

\* in1_iter[i+1], in2_iter[i+1]
NextInput(k) == k + Depth

\* out_iter[i] in place of [i-1]
PrevOutputCurrent(k) == k

\* out_iter[i-1]
PrevOutput(k) == k - Depth

\* in1_iter[0], in2_iter[0]: the slice transferred before the loop.
PrimeIndex == 0

\* ---- Example 3, serial execution (code cell 12)
S_SyncIn1 ==
    /\ pc = "s_in1"
    /\ SyncToDevice("in1", i, "s_in2")
    /\ TransferFrame /\ UNCHANGED i

S_SyncIn2 ==
    /\ pc = "s_in2"
    /\ SyncToDevice("in2", i, "s_call")
    /\ TransferFrame /\ UNCHANGED i

S_Call ==
    /\ pc = "s_call"
    /\ Call(i, "s_out")
    /\ CallFrame /\ UNCHANGED i

S_SyncOut ==
    /\ pc = "s_out"
    /\ SyncFromDevice("out", i, IF LoopContinues(i) THEN "s_in1" ELSE "timeit_end")
    /\ i' = IF pc' = "s_in1" THEN i + 1 ELSE i
    /\ TransferFrame

\* ---- in1_iter[:] = random, in2_iter[:] = random, out_iter[:] = 0 (cell 14)
\* The device mirrors keep the operands and sums of the previous draw; they
\* no longer derive from the host's data and are represented by Indet.
Reinit ==
    /\ pc = "reinit"
    /\ \E a \in [Slices -> Values], b \in [Slices -> Values] :
        host' = [in1 |-> a, in2 |-> b, out |-> [s \in Slices |-> 0]]
    /\ dev' = [x \in Bufs |-> [s \in Slices |-> Indet]]
    /\ log' = <<Ev("host_write", "in1", WholeBuf),
                 Ev("host_write", "in2", WholeBuf),
                 Ev("host_write", "out", WholeBuf)>>
    /\ runStart' = 0
    /\ cell' = "o"
    /\ runs' = 0
    /\ equal' = "none"
    /\ faulty' = {}
    /\ pc' = "timeit"
    /\ UNCHANGED <<ex, n, bank, live, overlay, i, handle, outstanding,
                   running, faultBudget, err>>

\* ---- Example 3, overlapped execution (code cell 15)
\* in1_iter[0].sync_to_device() left out before the loop.
O_Prime1Omitted ==
    /\ pc = "o_prime1"
    /\ pc' = "o_prime2"
    /\ UNCHANGED <<ex, n, host, dev, bank, live, overlay, i, handle,
                   outstanding, running, faulty, faultBudget, cell, runs, equal,
                   err, log, runStart>>

O_Prime1 ==
    /\ pc = "o_prime1"
    /\ SyncToDevice("in1", PrimeIndex, "o_prime2")
    /\ TransferFrame /\ UNCHANGED i

\* in2_iter[0].sync_to_device() left out before the loop.
O_Prime2Omitted ==
    /\ pc = "o_prime2"
    /\ pc' = "o_start"
    /\ UNCHANGED <<ex, n, host, dev, bank, live, overlay, i, handle,
                   outstanding, running, faulty, faultBudget, cell, runs, equal,
                   err, log, runStart>>

O_Prime2 ==
    /\ pc = "o_prime2"
    /\ SyncToDevice("in2", PrimeIndex, "o_start")
    /\ TransferFrame /\ UNCHANGED i

\* vadd_wide_mb.start(...) without "handle =": the handle the loop waits on
\* is never bound to the invocation.
O_StartDropsHandle ==
    /\ pc = "o_start"
    /\ outstanding' = outstanding \cup {i}
    /\ running' = running \cup {i}
    /\ log' = Append(log, Ev("start", "kernel", i))
    /\ pc' = IF HasNext(i) THEN "o_in1"
             ELSE IF HasPrev(i) THEN "o_out" ELSE "o_wait"
    /\ UNCHANGED <<ex, n, host, dev, bank, live, overlay, i, handle, faulty,
                   faultBudget, cell, runs, equal, err, runStart>>

O_Start ==
    /\ pc = "o_start"
    /\ Start(i, IF HasNext(i) THEN "o_in1"
                ELSE IF HasPrev(i) THEN "o_out" ELSE "o_wait")
    /\ UNCHANGED <<ex, n, host, dev, bank, live, overlay, i, faulty, faultBudget,
                   cell, runs, equal, runStart>>

\* in1_iter[i+1].sync_to_device() left out of the loop body.
O_SyncIn1Omitted ==
    /\ pc = "o_in1"
    /\ pc' = "o_in2"
    /\ UNCHANGED <<ex, n, host, dev, bank, live, overlay, i, handle,
                   outstanding, running, faulty, faultBudget, cell, runs, equal,
                   err, log, runStart>>

O_SyncIn1 ==
    /\ pc = "o_in1"
    /\ SyncToDevice("in1", NextInput(i), "o_in2")
    /\ TransferFrame /\ UNCHANGED i

\* "if i > 0" written as "elif i > 0": the output transfer is skipped in
\* every iteration that transferred the next inputs.
O_SyncIn2SkipsOut ==
    /\ pc = "o_in2"
    /\ SyncToDevice("in2", NextInput(i), "o_wait")
    /\ TransferFrame /\ UNCHANGED i

O_SyncIn2 ==
    /\ pc = "o_in2"
    /\ SyncToDevice("in2", NextInput(i), IF HasPrev(i) THEN "o_out" ELSE "o_wait")
    /\ TransferFrame /\ UNCHANGED i

O_SyncOut ==
    /\ pc = "o_out"
    /\ SyncFromDevice("out", PrevOutput(i), "o_wait")
    /\ TransferFrame /\ UNCHANGED i

O_Wait ==
    /\ pc = "o_wait"
    /\ Wait(IF LoopContinues(i) THEN "o_start" ELSE "o_drain")
    /\ i' = IF LoopContinues(i) THEN i + 1 ELSE i
    /\ UNCHANGED <<ex, n, host, dev, bank, live, overlay, running, faulty,
                   faultBudget, cell, runs, equal, err, runStart>>

\* out_iter[9].sync_from_device() left out after the loop.
O_DrainOmitted ==
    /\ pc = "o_drain"
    /\ pc' = "timeit_end"
    /\ UNCHANGED <<ex, n, host, dev, bank, live, overlay, i, handle,
                   outstanding, running, faulty, faultBudget, cell, runs, equal,
                   err, log, runStart>>

O_Drain ==
    /\ pc = "o_drain"
    /\ SyncFromDevice("out", LastIndex, "timeit_end")
    /\ TransferFrame /\ UNCHANGED i

\* ------------------------------------------------------------------- Next
Next ==
    \/ Allocate
    \/ TimeitBegin
    \/ TimeitRepeat
    \/ TimeitDone
    \/ A_SyncIn1
    \/ A_SyncIn2
    \/ A_Call
    \/ A_SyncOut
    \/ B_Call
    \/ Compare
    \/ DeleteBuffers
    \/ DeleteIter
    \/ CleanUp
    \/ S_SyncIn1
    \/ S_SyncIn2
    \/ S_Call
    \/ S_SyncOut
    \/ Reinit
    \/ O_Prime1
    \/ O_Prime2
    \/ O_Start
    \/ O_SyncIn1
    \/ O_SyncIn2
    \/ O_SyncOut
    \/ O_Wait
    \/ O_Drain
    \/ KernelFinish

Spec == Init /\ [][Next]_vars

\* The same notebook on an accelerator that may report up to MaxFaults
\* kernel faults (fault injection).
InitFault ==
    /\ pc = "alloc"
    /\ ex = 1
    /\ n = 0
    /\ host = [b \in Bufs |-> <<>>]
    /\ dev = [b \in Bufs |-> <<>>]
    /\ bank = [b \in Bufs |-> "none"]
    /\ live = {}
    /\ overlay = TRUE
    /\ i = 0
    /\ handle = NoSlice
    /\ outstanding = {}
    /\ running = {}
    /\ faulty = {}
    /\ faultBudget = MaxFaults
    /\ cell = "a"
    /\ runs = 0
    /\ equal = "none"
    /\ err = <<>>
    /\ log = <<>>
    /\ runStart = 0

FaultSpec == InitFault /\ [][Next]_vars

\* The notebook with its scheduling: the kernel runs the cells statement
\* after statement, so a host statement that can execute does; the compute
\* unit finishes every invocation it was given.
LiveSpec == Init /\ [][Next]_vars /\ WF_vars(Next) /\ WF_vars(KernelFinish)

\* ------------------------------------------------------ reading the log
\* Positions of the events of the cell execution in progress.
Run == (runStart + 1) .. Len(log)

\* The events of the cell execution in progress, without its "end" event.
RunEvents ==
    SelectSeq(SubSeq(log, runStart + 1, Len(log)), LAMBDA e : e[1] # "end")

IsTransfer(e) == e[1] \in {"to_device", "from_device"}

\* Slice s has an invocation started before position k of the log and not
\* waited on before k.
OutstandingAt(s, k) ==
    \E p \in Run : /\ p < k
                   /\ log[p] = Ev("start", "kernel", s)
                   /\ ~ \E w \in Run : p < w /\ w < k /\ log[w] = Ev("wait", "kernel", s)

InOverlapped ==
    ex = 3 /\ cell = "o" /\ pc \notin {"timeit", "compare", "del", "free", "end"}
InSerial == ex = 3 /\ cell = "s" /\ pc \notin {"timeit", "compare", "reinit"}

\* The schedule of the serial loop over k slices.
RECURSIVE SerialSchedule(_)
SerialSchedule(k) ==
    IF k = 0 THEN <<>>
    ELSE SerialSchedule(k - 1) \o
         <<Ev("to_device", "in1", k - 1), Ev("to_device", "in2", k - 1),
           Ev("start", "kernel", k - 1), Ev("wait", "kernel", k - 1),
           Ev("from_device", "out", k - 1)>>

IsPrefix(a, b) == Len(a) <= Len(b) /\ SubSeq(b, 1, Len(a)) = a

\* ------------------------------------------------------------------ claims

\* C1: when an execution of the serial loop or of the overlapped loop has
\* returned and no invocation of it faulted, every output slice on the host
\* equals in1 slice + in2 slice; both loops therefore leave the same output
\* for the same inputs, and the comparison that follows yields True.
C1_OutputMatchesReference ==
    /\ (ex = 3 /\ pc = "timeit_end" /\ faulty = {}) =>
          \A s \in Slices : host["out"][s] = host["in1"][s] + host["in2"][s]
    /\ (ex = 3 /\ equal # "none" /\ faulty = {}) => equal = "True"

C1_Witness ==
    /\ ex = 3 /\ cell = "o" /\ pc = "timeit_end" /\ n = MaxSlices /\ faulty = {}
    /\ \E s \in Slices : host["out"][s] = 2 * (RandLimit - 1)
    /\ \E s \in Slices : host["out"][s] = RandLimit - 1

\* C2: in the overlapped loop every start of the invocation on slice s is
\* preceded, in the same execution, by a completed transfer to the device of
\* slice s of in1 and of slice s of in2.
C2_InputHazardFree ==
    InOverlapped =>
        \A k \in Run : log[k][1] = "start" =>
            /\ \E p \in Run : p < k /\ log[p] = Ev("to_device", "in1", log[k][3])
            /\ \E p \in Run : p < k /\ log[p] = Ev("to_device", "in2", log[k][3])

C2_Witness ==
    /\ InOverlapped /\ n = MaxSlices
    /\ \E k \in Run : log[k] = Ev("start", "kernel", n - 1)

\* C3: in the overlapped loop every transfer from the device of output slice
\* j, inside the loop or after it, is preceded in the same execution by the
\* wait on the invocation on slice j, and that invocation is then finished.
C3_OutputHazardFree ==
    InOverlapped =>
        \A k \in Run : log[k][1] = "from_device" =>
            /\ \E w \in Run : w < k /\ log[w] = Ev("wait", "kernel", log[k][3])
            /\ ~ OutstandingAt(log[k][3], k)

C3_Witness ==
    /\ InOverlapped /\ n = MaxSlices
    /\ \E k \in Run : log[k] = Ev("from_device", "out", 0)
    /\ \E k \in Run : log[k] = Ev("from_device", "out", n - 1)

\* C4: in the overlapped loop at most one invocation is outstanding, and
\* between two starts lies the wait on the earlier one.
C4_SingleOutstanding ==
    InOverlapped =>
        /\ Cardinality(outstanding) <= 1
        /\ \A k, l \in Run :
              (k < l /\ log[k][1] = "start" /\ log[l][1] = "start") =>
                  \E w \in Run : k < w /\ w < l /\ log[w] = Ev("wait", "kernel", log[k][3])

C4_Witness ==
    /\ InOverlapped /\ n = MaxSlices
    /\ outstanding = {n - 1}
    /\ running = {n - 1}

\* C5: in the overlapped loop no transfer, in either direction, targets a
\* slice whose invocation is outstanding when the transfer is issued.
C5_ExclusiveOwnership ==
    InOverlapped =>
        \A k \in Run : IsTransfer(log[k]) => ~ OutstandingAt(log[k][3], k)

C5_Witness ==
    /\ InOverlapped /\ n = MaxSlices /\ pc = "o_wait" /\ i = 1
    /\ outstanding = {1}
    /\ log[Len(log)] = Ev("from_device", "out", 0)
    /\ log[Len(log) - 1] = Ev("to_device", "in2", 2)

\* C6: when the overlapped loop has returned, its last statement was the
\* transfer from the device of the last output slice, and every output slice
\* was transferred from the device after the wait on its own invocation, with
\* no later invocation on it: the host copy is the device's result.
C6_DrainedOnReturn ==
    (ex = 3 /\ cell = "o" /\ pc = "timeit_end") =>
        /\ log[Len(log)] = Ev("from_device", "out", n - 1)
        /\ \A s \in Slices :
              \E k \in Run :
                 /\ log[k] = Ev("from_device", "out", s)
                 /\ \E w \in Run : w < k /\ log[w] = Ev("wait", "kernel", s)
                 /\ ~ \E p \in Run : p > k /\ log[p] = Ev("start", "kernel", s)
        /\ host["out"] = dev["out"]

C6_Witness ==
    /\ ex = 3 /\ cell = "o" /\ pc = "timeit_end" /\ n = MaxSlices
    /\ runs = MaxRuns - 1

\* C10: an execution of the serial loop issues, for i = 0, 1, ... in this
\* order, transfer-in of in1 slice i, transfer-in of in2 slice i, the
\* synchronous invocation on slice i and transfer-out of out slice i, and has
\* issued all of them for every slice when it returns.
C10_SerialOrder ==
    InSerial =>
        /\ IsPrefix(RunEvents, SerialSchedule(n))
        /\ pc = "timeit_end" => RunEvents = SerialSchedule(n)
        /\ outstanding = {}

C10_Witness ==
    /\ InSerial /\ pc = "timeit_end" /\ n = MaxSlices
    /\ Len(RunEvents) = 5 * MaxSlices

\* C7 (as claimed): once the wait on a faulted invocation on slice k has
\* returned, the overlapped loop has ended with an error tagged (invoke, k)
\* and the invocation on slice k + 1 has not been started.
C7_FaultStopsPipeline ==
    (ex = 3 /\ cell = "o" /\ pc # "timeit") =>
        \A k \in Slices :
            (k \in faulty /\ \E w \in Run : log[w] = Ev("wait", "kernel", k)) =>
                /\ pc = "raised"
                /\ err = <<"invoke", k>>
                /\ ~ \E p \in Run : log[p] = Ev("start", "kernel", k + 1)

\* C8 (as claimed): when the overlapped loop ends with an error, no
\* invocation is left started and not waited on.
C8_WaitedBeforeError ==
    (ex = 3 /\ cell = "o" /\ pc = "raised") => outstanding = {}

\* Every invocation reads inputs transferred to the device after the host
\* last wrote them.
InputsTransferredBeforeStart ==
    \A p \in 1 .. Len(log) : log[p][1] = "start" =>
        \A b \in {"in1", "in2"} :
            \E t \in 1 .. (p - 1) :
                /\ log[t] = Ev("to_device", b, log[p][3])
                /\ ~ \E h \in t .. p : log[h] = Ev("host_write", b, WholeBuf)

\* C9 (as claimed): every host comparison of the output is preceded by a
\* transfer from the device of each output slice that follows the last
\* invocation which wrote that slice, and every invocation reads inputs
\* transferred after the host last wrote them.
C9_ReadAfterLastInvocation ==
    /\ \A k \in 1 .. Len(log) : log[k][1] = "host_read" =>
          \A s \in Slices :
              \E f \in 1 .. (k - 1) :
                  /\ log[f] = Ev("from_device", "out", s)
                  /\ \E p \in 1 .. (f - 1) : log[p] = Ev("start", "kernel", s)
                  /\ ~ \E p \in f .. k : log[p] = Ev("start", "kernel", s)
    /\ InputsTransferredBeforeStart

\* C9 (amended): every host comparison of the output is preceded by a
\* transfer from the device of each output slice that follows the wait on an
\* invocation which wrote that slice; the device inputs of the slice are not
\* transferred again between that invocation and the comparison, so an
\* invocation issued after the transfer reads the same device inputs; and
\* every invocation reads inputs transferred after the host last wrote them.
C9_ReadAfterAnInvocation ==
    /\ \A k \in 1 .. Len(log) : log[k][1] = "host_read" =>
          \A s \in Slices :
              \E f \in 1 .. (k - 1) :
                  /\ log[f] = Ev("from_device", "out", s)
                  /\ \E p \in 1 .. (f - 1) :
                        /\ log[p] = Ev("start", "kernel", s)
                        /\ \E w \in p .. f : log[w] = Ev("wait", "kernel", s)
                        /\ ~ \E t \in p .. k :
                               \/ log[t] = Ev("to_device", "in1", s)
                               \/ log[t] = Ev("to_device", "in2", s)
                               \/ log[t][1] = "host_write"
    /\ InputsTransferredBeforeStart

\* The comparison of Example 2 has run after a call-only cell.
C9_Witness ==
    /\ ex = 2 /\ pc = "del" /\ equal = "True"
    /\ log[Len(log)] = Ev("host_read", "out", WholeBuf)
    /\ \E f \in 1 .. Len(log) :
          /\ log[f] = Ev("from_device", "out", 0)
          /\ \E p \in f .. Len(log) : log[p] = Ev("start", "kernel", 0)

\* The schedule of the overlapped loop over one slice.
SingleSliceSchedule ==
    <<Ev("to_device", "in1", 0), Ev("to_device", "in2", 0),
      Ev("start", "kernel", 0), Ev("wait", "kernel", 0),
      Ev("from_device", "out", 0)>>

\* C11: with one slice, an execution of the overlapped loop issues the
\* transfer to the device of slice 0 of in1 and of in2, the start of the
\* invocation on slice 0, the wait on it and the transfer from the device of
\* output slice 0, each once and in this order, so that no transfer lies
\* between the start and the wait; when it returns it has issued all of them.
C11_SingleSlice ==
    (InOverlapped /\ n = 1) =>
        /\ IsPrefix(RunEvents, SingleSliceSchedule)
        /\ pc = "timeit_end" => RunEvents = SingleSliceSchedule

C11_Witness ==
    /\ InOverlapped /\ n = 1 /\ pc = "timeit_end" /\ runs = MaxRuns - 1
    /\ log[Len(log)] = Ev("from_device", "out", 0)
    /\ log[Len(log) - 1] = Ev("wait", "kernel", 0)
    /\ log[Len(log) - 2] = Ev("start", "kernel", 0)

OverlapWindow(s) ==
    (IF s + Depth < n
     THEN <<Ev("to_device", "in1", s + Depth), Ev("to_device", "in2", s + Depth)>>
     ELSE <<>>)
    \o (IF s - Depth >= 0 THEN <<Ev("from_device", "out", s - Depth)>> ELSE <<>>)

\* Position in the log of the wait that follows the start at position k, or
\* the position after the last event if the wait has not been issued.
WaitAfter(k) ==
    IF \E w \in Run : w > k /\ log[w] = Ev("wait", "kernel", log[k][3])
    THEN CHOOSE w \in Run : w > k /\ log[w] = Ev("wait", "kernel", log[k][3])
    ELSE Len(log) + 1

\* C14: in the overlapped loop the events between the start of the
\* invocation on slice i and the wait on it are exactly the transfers to the
\* device of in1 and in2 slice i + 1 (when i + 1 < n) followed by the
\* transfer from the device of out slice i - 1 (when i - 1 >= 0); the events
\* before the first start are the transfers to the device of slice 0, and
\* the only event after the last wait is the transfer from the device of
\* output slice n - 1.
C14_OverlapWindow ==
    InOverlapped =>
        \A k \in Run :
            /\ log[k][1] = "start" =>
                  /\ IsPrefix(SubSeq(log, k + 1, WaitAfter(k) - 1),
                              OverlapWindow(log[k][3]))
                  /\ WaitAfter(k) <= Len(log) =>
                        SubSeq(log, k + 1, WaitAfter(k) - 1) = OverlapWindow(log[k][3])
            /\ log[k] = Ev("start", "kernel", 0) =>
                  SubSeq(log, runStart + 1, k - 1) =
                      <<Ev("to_device", "in1", 0), Ev("to_device", "in2", 0)>>
            /\ log[k] = Ev("wait", "kernel", n - 1) =>
                  /\ IsPrefix(SubSeq(log, k + 1, Len(log)),
                              <<Ev("from_device", "out", n - 1)>>)
                  /\ pc = "timeit_end" =>
                        SubSeq(log, k + 1, Len(log)) = <<Ev("from_device", "out", n - 1)>>

C14_Witness ==
    /\ InOverlapped /\ n = MaxSlices /\ pc = "o_start" /\ i = 2
    /\ SubSeq(log, Len(log) - 4, Len(log)) =
          <<Ev("start", "kernel", 1), Ev("to_device", "in1", 2),
            Ev("to_device", "in2", 2), Ev("from_device", "out", 0),
            Ev("wait", "kernel", 1)>>

\* The transfers and invocation events the serial loop issues over k slices.
SerialEvents(k) == {SerialSchedule(k)[p] : p \in 1 .. Len(SerialSchedule(k))}

\* C15: an execution of the overlapped loop issues no transfer and no
\* invocation event twice and none that the serial loop does not issue; when
\* it returns it has issued every transfer and every invocation event of the
\* serial loop: each slice of in1 and in2 went to the device once, each slice
\* of out came back once, each invocation was started and waited on once.
\* With more than one slice the order differs from the serial order.
C15_SameTransfersAsSerial ==
    InOverlapped =>
        LET serial == SerialEvents(n)
        IN  /\ \A k, l \in Run : log[k] = log[l] => k = l
            /\ \A k \in Run : log[k] \in serial
            /\ pc = "timeit_end" =>
                  /\ {log[k] : k \in Run} = serial
                  /\ Len(RunEvents) = Len(SerialSchedule(n))
                  /\ n > 1 => RunEvents # SerialSchedule(n)

C15_Witness ==
    /\ InOverlapped /\ pc = "timeit_end" /\ n = MaxSlices
    /\ Cardinality({k \in Run : IsTransfer(log[k])}) = 3 * MaxSlices
    /\ RunEvents # SerialSchedule(n)

\* start and wait on slices 0 .. k - 1, one slice after the other.
RECURSIVE InvocationSchedule(_)
InvocationSchedule(k) ==
    IF k = 0 THEN <<>>
    ELSE InvocationSchedule(k - 1) \o
         <<Ev("start", "kernel", k - 1), Ev("wait", "kernel", k - 1)>>

\* The overlapped loop has returned, having started and waited on the
\* invocations on slices 0 .. n - 1 in increasing order, each once, and
\* holding no handle that was not waited on.
OverlappedReturned ==
    /\ ex = 3 /\ cell = "o" /\ pc = "timeit_end"
    /\ SelectSeq(RunEvents, LAMBDA e : e[1] \in {"start", "wait"}) = InvocationSchedule(n)
    /\ outstanding = {}
    /\ handle = NoSlice

\* C16: under the scheduling of LiveSpec, every execution of the overlapped
\* loop that has begun and in which no transfer raises eventually returns,
\* having started and waited on the invocations on slices 0 .. n - 1 in
\* increasing order, each exactly once, with no invocation outstanding.
C16_OverlappedTerminates ==
    (ex = 3 /\ cell = "o" /\ pc = "o_prime1") ~> (OverlappedReturned \/ pc = "raised")

C16_Witness ==
    /\ OverlappedReturned /\ n = MaxSlices /\ runs = MaxRuns - 1
    /\ running = {}
    /\ Len(SelectSeq(RunEvents, LAMBDA e : e[1] = "wait")) = MaxSlices

\* The events of the first execution of the current cell, once it returned.
FirstRunEvents ==
    LET b == CHOOSE p \in 1 .. Len(log) : log[p] = Ev("begin", cell, 0)
        e == CHOOSE p \in 1 .. Len(log) : log[p] = Ev("end", cell, 0)
    IN  SubSeq(log, b + 1, e - 1)

\* C17: once the serial loop or the overlapped loop has been executed, no
\* step of a further execution of it changes the host buffers: the output is
\* what the first execution left.  Every further execution issues the events
\* of the first execution, in the same order, and has issued all of them when
\* it returns.
C17_RerunIdempotent ==
    /\ [][(ex = 3 /\ runs >= 1) => host' = host]_vars
    /\ []((ex = 3 /\ runs >= 1 /\ pc # "timeit") =>
              /\ IsPrefix(RunEvents, FirstRunEvents)
              /\ pc = "timeit_end" => RunEvents = FirstRunEvents)

C17_Witness ==
    /\ ex = 3 /\ cell = "o" /\ runs >= 1 /\ pc = "timeit_end" /\ n = MaxSlices
    /\ RunEvents = FirstRunEvents
    /\ \A s \in Slices : host["out"][s] = host["in1"][s] + host["in2"][s]
    /\ \E s \in Slices : host["out"][s] > 0

\* The statements that transfer a buffer, pass it to a kernel or read it on
\* the host, and the %%timeit bookkeeping around them.
UsesBuffers == pc \notin {"alloc", "free", "end", "raised"}

\* C18: every statement that transfers a buffer, passes it to a kernel or
\* reads it on the host executes while the three buffers are allocated and
\* the overlay is loaded, and no step that appends a host event to the log is
\* taken after the buffers were deleted, nor is an invocation outstanding or
\* running on the device then; the overlay is freed only after
\* every buffer was deleted; when the notebook has ended, no buffer and no
\* overlay remains.
C18_ResourceLifecycle ==
    /\ [](UsesBuffers => (live = Bufs /\ overlay))
    /\ [][(live = {} /\ pc # "alloc") => log' = log]_vars
    /\ [](live = {} => (outstanding = {} /\ running = {}))
    /\ [](~ overlay => live = {})
    /\ [][(overlay /\ ~ overlay') => (live = {} /\ live' = {})]_vars
    /\ [](pc = "end" => (live = {} /\ ~ overlay))

C18_Witness ==
    /\ pc = "end" /\ ex = 3 /\ live = {} /\ ~ overlay
    /\ equal = "True"
    /\ Len(log) > 0

\* C19: while the buffers of an example are allocated, each lies in the bank
\* the kernel of that example binds to its argument (Example 1: bank1 for
\* in1, in2 and out; Examples 2 and 3: bank0, bank1, bank2), and no start or
\* call was refused for a buffer in the wrong bank.
C19_BankAgreement ==
    /\ live = Bufs => \A b \in Bufs : bank[b] = KernelBank(ex, b)
    /\ err # <<>> => err[1] # "invoke"

C19_Witness ==
    /\ ex = 2 /\ pc = "a_out" /\ live = Bufs /\ err = <<>>
    /\ bank = [b \in Bufs |-> KernelBank(2, b)]
    /\ bank["in1"] = "bank0" /\ bank["out"] = "bank2"
    /\ log[Len(log)] = Ev("wait", "kernel", 0)

====
